---------------------------- MODULE Spec2Model ----------------------------
(***************************************************************************)
(* Model of doctor-agent-poc/main.py: the symptom -> specialty matching,   *)
(* filtering, scoring, ranking and pagination pipeline behind              *)
(* GET /search/doctors, and the lru_cache'd data loaders it reads.         *)
(*                                                                         *)
(* Text.  A Python str is a sequence of one-character strings, so that     *)
(* strip(), lower(), == and the substring test `a in b` are computed and   *)
(* not assumed.  The value None of an Optional[str] field is the           *)
(* one-element sequence None, whose element is no character.  An           *)
(* Optional[List] field that is None is modelled as the empty list: the    *)
(* code reads such a field only as `x or []` or by its truthiness, so the  *)
(* two are indistinguishable to it.                                        *)
(*                                                                         *)
(* Scores.  compute_score adds the float literals 1.0, 0.5, 0.3, 0.2, 0.4, *)
(* 0.2; the model counts tenths, so 2.8 is 28.  The doctors scored in one  *)
(* request all receive the same filter bonuses, and for such scores the    *)
(* doubles compare as the tenths do; round(score, 3) is the tenths.        *)
(***************************************************************************)
EXTENDS Integers, Sequences, FiniteSets, TLC

VARIABLES
    doctorsFile,    \* contents of data/doctors.json: a sequence of Doctor
    mappingFile,    \* contents of data/mapping.json: a sequence of entries
    cache,          \* lru_cache state of load_doctors / load_mapping
    loads,          \* how many times each file was opened and read
    pc,             \* position of the sequential caller
    args,           \* arguments of the call in progress
    ret,            \* value returned by the call
    tpc,            \* position of each request thread
    tloc            \* locals of each request thread

vars == <<doctorsFile, mappingFile, cache, loads, pc, args, ret, tpc, tloc>>

-----------------------------------------------------------------------------
(* Bounds of the model *)

MaxList == 2        \* longest locations / insurances / languages list
MaxDoctors == 3     \* most doctors in data/doctors.json
MaxPage == 2        \* largest |limit| and offset of a request
MaxThreads == 2     \* concurrent request threads

-----------------------------------------------------------------------------
(* Python values *)

None == <<"None">>
Whitespace == {" ", "\t"}

Truthy(s) == s # None /\ s # <<>>

Lower(c) ==
    CASE c = "A" -> "a" [] c = "B" -> "b" [] c = "C" -> "c"
      [] c = "E" -> "e" [] c = "F" -> "f" [] c = "H" -> "h"
      [] c = "N" -> "n" [] c = "S" -> "s" [] c = "Z" -> "z"
      [] OTHER -> c

\* str.lower()
lower(s) == [i \in 1..Len(s) |-> Lower(s[i])]

\* str.lstrip() / str.rstrip() / str.strip()
RECURSIVE lstrip(_)
lstrip(s) ==
    IF s = <<>> THEN <<>>
    ELSE IF Head(s) \in Whitespace THEN lstrip(Tail(s)) ELSE s

RECURSIVE rstrip(_)
rstrip(s) ==
    IF s = <<>> THEN <<>>
    ELSE IF s[Len(s)] \in Whitespace THEN rstrip(SubSeq(s, 1, Len(s) - 1)) ELSE s

strip(s) == rstrip(lstrip(s))

\* normalize(s): "" for None and "", else s.strip().lower()
normalize(s) == IF ~Truthy(s) THEN <<>> ELSE lower(strip(s))

\* Python's `a in b` on two str
Contains(a, b) ==
    \E i \in 0..(Len(b) - Len(a)) : SubSeq(b, i + 1, i + Len(a)) = a

\* str + " " + str
Concat3(a, b) == a \o <<" ">> \o b

\* `x or ""` on an Optional[str]
OrEmptyStr(s) == IF Truthy(s) THEN s ELSE <<>>

\* sequences over S of length at most n
SeqUpTo(S, n) == UNION {[1..k -> S] : k \in 0..n}

-----------------------------------------------------------------------------
(* doctor_matches_filters *)

\* the elements of a list, for any(... for x in list)
Elems(seq) == {seq[k] : k \in 1..Len(seq)}

CityFilterMismatch(d, city) ==
    /\ Truthy(city)
    /\ ~(\E loc \in Elems(d.locations) :
            Truthy(loc.city) /\ normalize(loc.city) = normalize(city))

StateFilterMismatch(d, state) ==
    /\ Truthy(state)
    /\ ~(\E loc \in Elems(d.locations) :
            Truthy(loc.state) /\ normalize(loc.state) = normalize(state))

InsuranceFilterMismatch(d, insurance) ==
    /\ Truthy(insurance)
    /\ LET ins_norm == normalize(insurance) IN
       ~(\E i \in Elems(d.insurances) :
            \/ Contains(ins_norm, OrEmptyStr(normalize(i.payer_code)))
            \/ Contains(ins_norm, OrEmptyStr(normalize(i.payer_name))))

LanguageFilterMismatch(d, language) ==
    /\ Truthy(language)
    /\ ~(\E l \in Elems(d.languages) : Contains(normalize(language), normalize(l)))

\* a gate whose city test is a substring test
doctor_matches_filters_city_substring(d, city, state, insurance, language) ==
    /\ Truthy(city) =>
         (\E loc \in Elems(d.locations) :
             Truthy(loc.city) /\ Contains(normalize(city), normalize(loc.city)))
    /\ ~StateFilterMismatch(d, state)
    /\ ~InsuranceFilterMismatch(d, insurance)
    /\ ~LanguageFilterMismatch(d, language)

doctor_matches_filters(d, city, state, insurance, language) ==
    IF CityFilterMismatch(d, city) THEN FALSE
    ELSE IF StateFilterMismatch(d, state) THEN FALSE
    ELSE IF InsuranceFilterMismatch(d, insurance) THEN FALSE
    ELSE IF LanguageFilterMismatch(d, language) THEN FALSE
    ELSE TRUE

-----------------------------------------------------------------------------
(* detect_specialties_from_query *)

\* for sp in d.specialties: if normalize(sp) in qn: specs.add(sp)
RECURSIVE AddDirect(_, _, _)
AddDirect(specialties, qn, specs) ==
    IF specialties = <<>> THEN specs
    ELSE AddDirect(Tail(specialties), qn,
                   IF Contains(normalize(Head(specialties)), qn)
                   THEN specs \cup {Head(specialties)} ELSE specs)

\* for d in load_doctors(): ...
RECURSIVE DirectPhase(_, _, _)
DirectPhase(doctors, qn, specs) ==
    IF doctors = <<>> THEN specs
    ELSE DirectPhase(Tail(doctors), qn, AddDirect(Head(doctors).specialties, qn, specs))

\* for cond in item.get("condition", []): if normalize(cond) and normalize(cond) in qn: add all
RECURSIVE AddMapped(_, _, _, _)
AddMapped(conds, item, qn, specs) ==
    IF conds = <<>> THEN specs
    ELSE AddMapped(Tail(conds), item, qn,
                   IF normalize(Head(conds)) # <<>> /\ Contains(normalize(Head(conds)), qn)
                   THEN specs \cup {item.specialties[i] : i \in 1..Len(item.specialties)}
                   ELSE specs)

\* for item in load_mapping(): ...
RECURSIVE MappingPhase(_, _, _)
MappingPhase(mapping, qn, specs) ==
    IF mapping = <<>> THEN specs
    ELSE MappingPhase(Tail(mapping), qn,
                      AddMapped(Head(mapping).condition, Head(mapping), qn, specs))

\* a detection that consults the mapping table whatever the first phase found
detect_specialties_from_query_both(q, doctors, mapping) ==
    MappingPhase(mapping, normalize(q), DirectPhase(doctors, normalize(q), {}))

\* The result is list(specs), whose order is the set's iteration order; the
\* model keeps the set.
detect_specialties_from_query(q, doctors, mapping) ==
    LET qn == normalize(q)
        specs == DirectPhase(doctors, qn, {})
    IN  IF specs = {} THEN MappingPhase(mapping, qn, specs) ELSE specs

-----------------------------------------------------------------------------
(* compute_score, in tenths *)

W_SPECIALTY == 10
W_NAME == 5
W_CITY == 3
W_STATE == 2
W_INSURANCE == 4
W_LANGUAGE == 2

\* sum(1.0 for sp in d.specialties if sp in specs)
RECURSIVE SpecialtySum(_, _)
SpecialtySum(specialties, specs) ==
    IF specialties = <<>> THEN 0
    ELSE (IF Head(specialties) \in specs THEN W_SPECIALTY ELSE 0)
         + SpecialtySum(Tail(specialties), specs)

\* a name bonus that stacks: one per matching name or variant
NameBonus_stacked(d, q) ==
    LET qn == normalize(q) IN
    IF qn = <<>> THEN 0
    ELSE (IF Contains(qn, normalize(d.full_name)) THEN W_NAME ELSE 0)
         + W_NAME * Cardinality({k \in 1..Len(d.name_variants) :
                                    Contains(qn, normalize(d.name_variants[k]))})

NameBonus(d, q) ==
    LET qn == normalize(q) IN
    IF /\ qn # <<>>
       /\ \/ Contains(qn, normalize(d.full_name))
          \/ \E v \in Elems(d.name_variants) : Contains(qn, normalize(v))
    THEN W_NAME ELSE 0

CityBonus(d, city) ==
    IF /\ Truthy(city)
       /\ \E loc \in Elems(d.locations) :
             Truthy(loc.city) /\ normalize(loc.city) = normalize(city)
    THEN W_CITY ELSE 0

StateBonus(d, state) ==
    IF /\ Truthy(state)
       /\ \E loc \in Elems(d.locations) :
             Truthy(loc.state) /\ normalize(loc.state) = normalize(state)
    THEN W_STATE ELSE 0

\* a bonus that tests the payer code and name as stored, not normalized
InsuranceBonus_raw(d, insurance) ==
    IF /\ Truthy(insurance)
       /\ \E i \in Elems(d.insurances) :
             Contains(normalize(insurance),
                      Concat3(OrEmptyStr(i.payer_code), OrEmptyStr(i.payer_name)))
    THEN W_INSURANCE ELSE 0

InsuranceBonus(d, insurance) ==
    IF /\ Truthy(insurance)
       /\ \E i \in Elems(d.insurances) :
             Contains(normalize(insurance),
                      Concat3(OrEmptyStr(normalize(i.payer_code)),
                              OrEmptyStr(normalize(i.payer_name))))
    THEN W_INSURANCE ELSE 0

LanguageBonus(d, language) ==
    IF /\ Truthy(language)
       /\ \E l \in Elems(d.languages) : Contains(normalize(language), normalize(l))
    THEN W_LANGUAGE ELSE 0

compute_score(d, specs, q, city, state, insurance, language) ==
    (IF specs # {} THEN SpecialtySum(d.specialties, specs) ELSE 0)
    + NameBonus(d, q)
    + CityBonus(d, city)
    + StateBonus(d, state)
    + InsuranceBonus(d, insurance)
    + LanguageBonus(d, language)

-----------------------------------------------------------------------------
(* triage_note: which of the four templates, and what is filled in *)

triage_note(lang, q, specs) ==
    IF lang = "zh"
    THEN IF specs # {} THEN [template |-> "zh_specs", q |-> q, specs |-> specs]
         ELSE [template |-> "zh_none", q |-> q, specs |-> {}]
    ELSE IF specs # {} THEN [template |-> "en_specs", q |-> q, specs |-> specs]
         ELSE [template |-> "en_none", q |-> q, specs |-> {}]

-----------------------------------------------------------------------------
(* list.sort(key=..., reverse=True) and list slicing *)

Reverse(seq) == [i \in 1..Len(seq) |-> seq[Len(seq) + 1 - i]]

\* insert x behind every element whose key is <= x's key
RECURSIVE InsertAsc(_, _)
InsertAsc(sorted, x) ==
    IF sorted = <<>> THEN <<x>>
    ELSE IF sorted[Len(sorted)][1] <= x[1] THEN Append(sorted, x)
    ELSE Append(InsertAsc(SubSeq(sorted, 1, Len(sorted) - 1), x), sorted[Len(sorted)])

\* a stable ascending sort by x[0]
RECURSIVE StableSortAsc(_)
StableSortAsc(seq) ==
    IF seq = <<>> THEN <<>>
    ELSE InsertAsc(StableSortAsc(SubSeq(seq, 1, Len(seq) - 1)), seq[Len(seq)])

\* a sort that forgets the first reversal: equal scores come out in reverse
SortReverse_ties_reversed(scored) == Reverse(StableSortAsc(scored))

\* CPython sorts with reverse=True by reversing the list, sorting it stably
\* in ascending order, and reversing the result.
SortReverse(scored) == Reverse(StableSortAsc(Reverse(scored)))

\* a slice index brought into 0..n, as list.__getitem__ does for a slice
ClampIndex(i, n) ==
    LET j == IF i < 0 THEN i + n ELSE i
    IN  IF j < 0 THEN 0 ELSE IF j > n THEN n ELSE j

\* seq[start:stop]
PySlice(seq, start, stop) ==
    LET lo == ClampIndex(start, Len(seq))
        hi == ClampIndex(stop, Len(seq))
    IN  IF lo < hi THEN SubSeq(seq, lo + 1, hi) ELSE <<>>

-----------------------------------------------------------------------------
(* search_doctors *)

\* " ".join(parts)
RECURSIVE JoinSpace(_)
JoinSpace(parts) ==
    IF parts = <<>> THEN <<>>
    ELSE IF Len(parts) = 1 THEN parts[1]
    ELSE parts[1] \o <<" ">> \o JoinSpace(Tail(parts))

\* the display string of one insurance entry
InsuranceDisplay(ins) ==
    LET p1 == IF Truthy(ins.payer_name) THEN <<ins.payer_name>> ELSE <<>>
        parts == IF Truthy(ins.plan)
                 THEN Append(p1, <<"(">> \o ins.plan \o <<")">>) ELSE p1
    IN  IF parts # <<>> THEN JoinSpace(parts) ELSE OrEmptyStr(ins.payer_code)

\* the DoctorCard of one (score, d) pair; round(score, 3) leaves tenths as they
\* are.  appointment and sources are copied from the record and left out.
DoctorCard(sd) ==
    LET score == sd[1]
        d == sd[2]
    IN  [doctor_id |-> d.doctor_id,
         name |-> d.full_name,
         specialties |-> d.specialties,
         languages |-> d.languages,
         insurances |-> [k \in 1..Len(d.insurances) |-> InsuranceDisplay(d.insurances[k])],
         location |-> IF d.locations # <<>>
                      THEN <<[city |-> d.locations[1].city, state |-> d.locations[1].state]>>
                      ELSE <<>>,
         score |-> score]

\* the `if` of the comprehension that builds scored
RelevanceGate(d, specs, q) ==
    \/ specs = {}
    \/ \E sp \in specs : \E k \in 1..Len(d.specialties) : d.specialties[k] = sp
    \/ Contains(normalize(q), normalize(d.full_name))

\* a pool that ignores the filters
Candidates_unfiltered(doctors, r) == doctors

\* candidates = filtered if (city or state or insurance or language) else doctors
Candidates(doctors, r) ==
    LET filtered == SelectSeq(doctors, LAMBDA d :
                        doctor_matches_filters(d, r.city, r.state, r.insurance, r.language))
    IN  IF Truthy(r.city) \/ Truthy(r.state) \/ Truthy(r.insurance) \/ Truthy(r.language)
        THEN filtered ELSE doctors

\* the unsorted scored list
Scored(candidates, specs, r) ==
    LET kept == SelectSeq(candidates, LAMBDA d : RelevanceGate(d, specs, r.q))
    IN  [k \in 1..Len(kept) |->
            <<compute_score(kept[k], specs, r.q, r.city, r.state, r.insurance, r.language),
              kept[k]>>]

\* scored[offset: offset + limit]
Page(scored, offset, limit) == PySlice(scored, offset, offset + limit)

\* The handler from line 196 on, given the doctors list and the detected
\* specialties: its locals specs, candidates and scored (after the sort),
\* and its response.
RankAndRespond(r, doctors, specs) ==
    LET candidates == Candidates(doctors, r)
        scored == SortReverse(Scored(candidates, specs, r))
        page == Page(scored, r.offset, r.limit)
        rows == [k \in 1..Len(page) |-> DoctorCard(page[k])]
    IN  [specs |-> specs,
         candidates |-> candidates,
         scored |-> scored,
         response |-> [analysis |-> [specialties |-> specs,
                                     triage_note |-> triage_note(r.lang, r.q, specs)],
                       doctors |-> rows]]

\* The handler, given what load_doctors() and load_mapping() return.
search_doctors(r, doctors, mapping) ==
    RankAndRespond(r, doctors, detect_specialties_from_query(r.q, doctors, mapping))

-----------------------------------------------------------------------------
(* The lru_cache(maxsize=1) of a loader without arguments holds at most one *)
(* entry: <<>> before the first call has stored its result, <<value>> after *)

EmptyCache == [doctors |-> <<>>, mapping |-> <<>>]

\* what load_doctors() / load_mapping() return, and the cache and the read
\* count they leave, when nothing else runs in between
Loaded(c, file) == IF c = <<>> THEN file ELSE c[1]
Stored(c, file) == IF c = <<>> THEN <<file>> ELSE c
Reads(c) == IF c = <<>> THEN 1 ELSE 0

\* detect_specialties_from_query calls load_mapping() only `if not specs`
MappingConsulted(q, doctors) == DirectPhase(doctors, normalize(q), {}) = {}

-----------------------------------------------------------------------------
(* Data: the strings, records and requests the specifications draw from *)

s_Ca == <<"C", "a">>
s_ca == <<"c", "a">>
s_Ne == <<"N", "e">>
s_h == <<"h">>
s_Hpad == <<"H", " ">>
s_An == <<"A", "n">>
s_Han == <<"H", "a", "n">>
s_Bo == <<"B", "o">>
s_z == <<"z">>
s_h_ne == <<"h", " ", "n", "e">>
s_Sf == <<"S", "f">>
s_sfpad == <<" ", "s", "f">>
s_SF == <<"S", "F">>
s_S == <<"S">>
s_CA == <<"C", "A">>
s_bc == <<"b", "c">>
s_Blue == <<"B", "l", "u", "e">>
s_blue == <<"b", "l", "u", "e">>
s_c_b == <<"c", " ", "b">>
s_P == <<"P">>
s_En == <<"E", "n">>
s_en == <<"e", "n">>
s_Zh == <<"Z", "h">>
s_sp == <<" ">>

Location(city, state) == [city |-> city, state |-> state]
Insurance(code, name, plan) == [payer_code |-> code, payer_name |-> name, plan |-> plan]
Doctor(name, variants, specialties, languages, insurances, locations) ==
    [doctor_id |-> 0, full_name |-> name, name_variants |-> variants,
     specialties |-> specialties, languages |-> languages,
     insurances |-> insurances, locations |-> locations]

\* the doctors a doctors.json of the main specification is made of
SearchProfiles ==
    { Doctor(s_An, <<>>, <<s_Ca>>, <<s_En>>,
             <<Insurance(s_bc, s_Blue, s_P)>>, <<Location(s_Sf, s_Ca)>>),
      Doctor(s_Bo, <<s_Han>>, <<s_Ne, s_Ca>>, <<s_Zh, s_En>>,
             <<Insurance(s_bc, None, s_P), Insurance(None, None, None)>>,
             <<Location(None, s_Ca), Location(s_sfpad, None)>>),
      Doctor(s_Han, <<>>, <<s_ca>>, <<>>, <<Insurance(s_bc, s_Blue, None)>>, <<>>) }

\* doctors.json: doctor_id is unique, here the position in the file
WithIds(ds) == [i \in 1..Len(ds) |-> [ds[i] EXCEPT !.doctor_id = i]]
DoctorFiles(profiles, n) == {WithIds(ds) : ds \in SeqUpTo(profiles, n)}

Entry(conds, specialties) == [condition |-> conds, specialties |-> specialties]
MappingFiles ==
    { <<Entry(<<s_Hpad>>, <<s_ca, s_Ne>>)>>,
      <<Entry(<<s_sp, s_h>>, <<s_Ca>>), Entry(<<s_sp>>, <<s_Ne>>)>> }

DEFAULT_LIMIT == 20
DEFAULT_OFFSET == 0

Request(q, city, state, insurance, language, limit, offset, lang) ==
    [q |-> q, city |-> city, state |-> state, insurance |-> insurance,
     language |-> language, limit |-> limit, offset |-> offset, lang |-> lang]

Queries == {s_ca, s_h, s_An, s_z, s_h_ne}

FilterCombos ==
    ({None, s_SF, s_S} \X {None} \X {None, s_blue, s_c_b} \X {None})
    \cup {<<s_SF, s_CA, s_blue, s_en>>, <<None, s_CA, None, None>>,
          <<None, None, None, s_en>>, <<s_sp, None, None, None>>}

Requests ==
    {Request(q, f[1], f[2], f[3], f[4], DEFAULT_LIMIT, DEFAULT_OFFSET, "en") :
        q \in Queries, f \in FilterCombos}
    \cup {Request(q, None, None, None, None, limit, offset, "en") :
        q \in Queries, limit \in (-MaxPage)..MaxPage, offset \in (-1)..MaxPage}
    \cup {Request(q, None, None, None, None, DEFAULT_LIMIT, DEFAULT_OFFSET, "zh") :
        q \in Queries}

NoCall == [fn |-> "none"]

-----------------------------------------------------------------------------
(* The request handler, one request at a time *)

Init ==
    /\ doctorsFile \in DoctorFiles(SearchProfiles, MaxDoctors)
    /\ mappingFile \in MappingFiles
    /\ cache = EmptyCache
    /\ loads = [doctors |-> 0, mapping |-> 0]
    /\ pc = "idle"
    /\ args = NoCall
    /\ ret = NoCall
    /\ tpc = <<>>
    /\ tloc = <<>>

\* GET /search/doctors: load_doctors(), detect_specialties_from_query (which
\* calls load_doctors() again and, if no specialty is named in q,
\* load_mapping()), filter, score, sort, slice, build the cards
SearchDoctors(r) ==
    /\ pc = "idle"
    /\ LET doctors == Loaded(cache.doctors, doctorsFile)
           consulted == MappingConsulted(r.q, doctors)
           mapping == Loaded(cache.mapping, mappingFile)
       IN  /\ cache' = [doctors |-> Stored(cache.doctors, doctorsFile),
                        mapping |-> IF consulted THEN Stored(cache.mapping, mappingFile)
                                    ELSE cache.mapping]
           /\ loads' = [doctors |-> loads.doctors + Reads(cache.doctors),
                        mapping |-> loads.mapping
                                    + (IF consulted THEN Reads(cache.mapping) ELSE 0)]
           /\ ret' = search_doctors(r, doctors, mapping)
    /\ args' = r
    /\ pc' = "responded"
    /\ UNCHANGED <<doctorsFile, mappingFile, tpc, tloc>>

\* the response is sent; the handler's locals are gone
Respond ==
    /\ pc = "responded"
    /\ pc' = "idle"
    /\ args' = NoCall
    /\ ret' = NoCall
    /\ UNCHANGED <<doctorsFile, mappingFile, cache, loads, tpc, tloc>>

Next ==
    \/ \E r \in Requests : SearchDoctors(r)
    \/ Respond

Spec == Init /\ [][Next]_vars

-----------------------------------------------------------------------------
(* Claims about the handler, checked under Spec *)

Responded == pc = "responded"
AnyFilter(r) ==
    Truthy(r.city) \/ Truthy(r.state) \/ Truthy(r.insurance) \/ Truthy(r.language)
Ids(seq) == {seq[k].doctor_id : k \in 1..Len(seq)}
ScoredIds(scored) == {scored[k][2].doctor_id : k \in 1..Len(scored)}
PosIn(seq, d) == CHOOSE k \in 1..Len(seq) : seq[k].doctor_id = d.doctor_id
Templates == {"en_specs", "en_none", "zh_specs", "zh_none"}

\* C1: whenever limit is 0 or negative, or offset is at least the number of
\* doctors that passed the relevance gate, the response has no doctors and an
\* analysis block with its specialties and a triage note.
C1_EmptyPage ==
    (Responded /\ (args.limit <= 0 \/ args.offset >= Len(ret.scored)))
    => /\ ret.response.doctors = <<>>
       /\ ret.response.analysis.specialties = ret.specs
       /\ ret.response.analysis.triage_note.template \in Templates

\* C3: the list that is paginated is in non-increasing order of score, and
\* two doctors of equal score are in the order of the candidate pool.
C3_SortedStable ==
    Responded =>
        \A i, j \in 1..Len(ret.scored) :
            i < j =>
                /\ ret.scored[i][1] >= ret.scored[j][1]
                /\ ret.scored[i][1] = ret.scored[j][1]
                   => PosIn(ret.candidates, ret.scored[i][2])
                      < PosIn(ret.candidates, ret.scored[j][2])

C3_Witness ==
    /\ Responded
    /\ \E i, j \in 1..Len(ret.scored) :
          i < j /\ ret.scored[i][1] = ret.scored[j][1]
    /\ \E i, j \in 1..Len(ret.scored) : ret.scored[i][1] > ret.scored[j][1]
    /\ \E i, j \in 1..Len(ret.candidates) :
          \* the unsorted list had a lower score ahead of a higher one
          /\ i < j
          /\ RelevanceGate(ret.candidates[i], ret.specs, args.q)
          /\ RelevanceGate(ret.candidates[j], ret.specs, args.q)
          /\ compute_score(ret.candidates[i], ret.specs, args.q, args.city, args.state,
                           args.insurance, args.language)
             < compute_score(ret.candidates[j], ret.specs, args.q, args.city, args.state,
                             args.insurance, args.language)

\* the gate as the claim words it
GatePasses(d, detected, q) ==
    \/ detected = {}
    \/ {d.specialties[k] : k \in 1..Len(d.specialties)} \cap detected # {}
    \/ Contains(normalize(q), normalize(d.full_name))

\* the pool as the claim words it
PoolIds(doctors, r) ==
    IF AnyFilter(r)
    THEN {doctors[k].doctor_id : k \in
            {k \in 1..Len(doctors) :
                doctor_matches_filters(doctors[k], r.city, r.state, r.insurance, r.language)}}
    ELSE Ids(doctors)

\* C4: the ranked doctors are exactly the pool members that pass the
\* relevance gate, each once; the pool is the filtered collection when a
\* filter is supplied and the whole collection otherwise; and every doctor
\* returned is one of them.
C4_RankedSet ==
    Responded =>
        LET doctors == cache.doctors[1]
            pool == PoolIds(doctors, args)
        IN  /\ ScoredIds(ret.scored)
               = {doctors[k].doctor_id : k \in
                    {k \in 1..Len(doctors) :
                        /\ doctors[k].doctor_id \in pool
                        /\ GatePasses(doctors[k], ret.specs, args.q)}}
            /\ Cardinality(ScoredIds(ret.scored)) = Len(ret.scored)
            /\ Ids(ret.response.doctors) \subseteq ScoredIds(ret.scored)

C4_Witness ==
    /\ Responded
    /\ AnyFilter(args)
    /\ ret.scored # <<>>
    /\ ret.response.doctors # <<>>
    /\ \E k \in 1..Len(cache.doctors[1]) :
          cache.doctors[1][k].doctor_id \notin PoolIds(cache.doctors[1], args)
    /\ \E k \in 1..Len(cache.doctors[1]) :
          /\ cache.doctors[1][k].doctor_id \in PoolIds(cache.doctors[1], args)
          /\ ~GatePasses(cache.doctors[1][k], ret.specs, args.q)

\* every specialty label replaced by one of the same normalized form
NormalizedLabels(labels) == [k \in 1..Len(labels) |-> normalize(labels[k])]
DoctorsRelabelled(doctors) ==
    [k \in 1..Len(doctors) |->
        [doctors[k] EXCEPT !.specialties = NormalizedLabels(doctors[k].specialties)]]
MappingRelabelled(mapping) ==
    [k \in 1..Len(mapping) |->
        [mapping[k] EXCEPT !.specialties = NormalizedLabels(mapping[k].specialties)]]
Outcome(scored) == {<<scored[k][2].doctor_id, scored[k][1]>> : k \in 1..Len(scored)}

\* C8: replacing specialty labels, in the doctor records and in the mapping
\* entries, by strings of the same normalized form changes neither which
\* doctors pass the relevance gate nor any doctor's score.
C8_LabelsCaseInsensitive ==
    Responded =>
        Outcome(ret.scored)
        = Outcome(search_doctors(args, DoctorsRelabelled(cache.doctors[1]),
                                 MappingRelabelled(mappingFile)).scored)

\* the display string as the claim words it
ClaimedDisplay(ins) ==
    IF Truthy(ins.payer_name) /\ Truthy(ins.plan)
    THEN ins.payer_name \o <<" ", "(">> \o ins.plan \o <<")">>
    ELSE IF Truthy(ins.payer_name) THEN ins.payer_name
    ELSE IF Truthy(ins.payer_code) THEN ins.payer_code
    ELSE <<>>

\* C9: every insurance entry of a returned doctor is displayed as payer name
\* and plan in parentheses if both are present, else the payer name, else
\* the payer code, else the empty string.
C9_InsuranceDisplay ==
    Responded =>
        \A k \in 1..Len(ret.response.doctors) :
            LET row == ret.response.doctors[k]
                d == cache.doctors[1][row.doctor_id]
            IN  /\ Len(row.insurances) = Len(d.insurances)
                /\ \A j \in 1..Len(d.insurances) :
                      row.insurances[j] = ClaimedDisplay(d.insurances[j])

SuppliedBonuses(r) ==
    (IF Truthy(r.city) THEN W_CITY ELSE 0)
    + (IF Truthy(r.state) THEN W_STATE ELSE 0)
    + (IF Truthy(r.insurance) THEN W_INSURANCE ELSE 0)
    + (IF Truthy(r.language) THEN W_LANGUAGE ELSE 0)

\* C10: a doctor that passes doctor_matches_filters is awarded the bonus of
\* every supplied filter, so when a filter is supplied every ranked doctor
\* scores at least the sum of the bonuses of the supplied filters.
C10_GateImpliesBonus ==
    Responded =>
        /\ \A k \in 1..Len(cache.doctors[1]) :
              LET d == cache.doctors[1][k] IN
              doctor_matches_filters(d, args.city, args.state, args.insurance, args.language)
              => /\ Truthy(args.city) => CityBonus(d, args.city) = W_CITY
                 /\ Truthy(args.state) => StateBonus(d, args.state) = W_STATE
                 /\ Truthy(args.insurance) => InsuranceBonus(d, args.insurance) = W_INSURANCE
                 /\ Truthy(args.language) => LanguageBonus(d, args.language) = W_LANGUAGE
        /\ AnyFilter(args) =>
              \A k \in 1..Len(ret.scored) : ret.scored[k][1] >= SuppliedBonuses(args)

C10_Witness ==
    /\ Responded
    /\ Truthy(args.city) /\ Truthy(args.state)
    /\ Truthy(args.insurance) /\ Truthy(args.language)
    /\ ret.scored # <<>>
    /\ \E k \in 1..Len(cache.doctors[1]) :
          ~doctor_matches_filters(cache.doctors[1][k], args.city, args.state,
                                  args.insurance, args.language)

-----------------------------------------------------------------------------
(* The pure functions alone: the initial state holds the arguments of one *)
(* call, the action applies the function                                   *)

NoData ==
    /\ doctorsFile = <<>>
    /\ mappingFile = <<>>
    /\ cache = EmptyCache
    /\ loads = [doctors |-> 0, mapping |-> 0]
    /\ ret = NoCall
    /\ tpc = <<>>
    /\ tloc = <<>>

Return(value) ==
    /\ pc = "call"
    /\ pc' = "return"
    /\ ret' = [value |-> value]
    /\ UNCHANGED <<doctorsFile, mappingFile, cache, loads, args, tpc, tloc>>

Returned(fn) == pc = "return" /\ args.fn = fn

(* doctor_matches_filters *)

FilterLocations == {Location(None, None), Location(s_Sf, s_Ca), Location(s_sp, None)}
FilterInsurances == {Insurance(None, None, None), Insurance(s_bc, s_Blue, None)}
FilterLanguages == {s_En}
FilterDoctors ==
    {Doctor(s_An, <<>>, <<>>, langs, inss, locs) :
        langs \in SeqUpTo(FilterLanguages, MaxList),
        inss \in SeqUpTo(FilterInsurances, MaxList),
        locs \in SeqUpTo(FilterLocations, MaxList)}

InitFilter ==
    /\ NoData
    /\ pc = "call"
    /\ args \in {[fn |-> "doctor_matches_filters", d |-> d, city |-> city, state |-> state,
                  insurance |-> insurance, language |-> language] :
                    d \in FilterDoctors,
                    city \in {None, s_sp, s_S, s_sfpad},
                    state \in {None, s_CA},
                    insurance \in {None, s_blue, s_c_b, s_sp},
                    language \in {None, s_en}}

CallFilter ==
    /\ args.fn = "doctor_matches_filters"
    /\ Return(doctor_matches_filters(args.d, args.city, args.state,
                                     args.insurance, args.language))

SpecFilter == InitFilter /\ [][CallFilter]_vars

\* C5 as stated: true iff every supplied filter is met, a city or state
\* filter by some location whose normalized city or state equals the
\* normalized filter, an insurance filter by being a substring of some
\* normalized payer code or payer name, a language filter by being a
\* substring of some normalized language.
C5_AsStated ==
    Returned("doctor_matches_filters") =>
        LET d == args.d IN
        ret.value =
            /\ ~Truthy(args.city) \/ \E k \in 1..Len(d.locations) :
                   normalize(d.locations[k].city) = normalize(args.city)
            /\ ~Truthy(args.state) \/ \E k \in 1..Len(d.locations) :
                   normalize(d.locations[k].state) = normalize(args.state)
            /\ ~Truthy(args.insurance) \/ \E k \in 1..Len(d.insurances) :
                   \/ Contains(normalize(args.insurance), normalize(d.insurances[k].payer_code))
                   \/ Contains(normalize(args.insurance), normalize(d.insurances[k].payer_name))
            /\ ~Truthy(args.language) \/ \E k \in 1..Len(d.languages) :
                   Contains(normalize(args.language), normalize(d.languages[k]))

\* C5 as amended: as stated, except that only a location that has a
\* non-empty city (state) can meet a city (state) filter.  A city filter that
\* is a proper substring of the doctor's city is not met, and a doctor
\* without locations, insurances or languages fails a filter on that field.
C5_FilterMeaning ==
    Returned("doctor_matches_filters") =>
        LET d == args.d IN
        /\ ret.value =
            /\ ~Truthy(args.city) \/ \E k \in 1..Len(d.locations) :
                   /\ Truthy(d.locations[k].city)
                   /\ normalize(d.locations[k].city) = normalize(args.city)
            /\ ~Truthy(args.state) \/ \E k \in 1..Len(d.locations) :
                   /\ Truthy(d.locations[k].state)
                   /\ normalize(d.locations[k].state) = normalize(args.state)
            /\ ~Truthy(args.insurance) \/ \E k \in 1..Len(d.insurances) :
                   \/ Contains(normalize(args.insurance), normalize(d.insurances[k].payer_code))
                   \/ Contains(normalize(args.insurance), normalize(d.insurances[k].payer_name))
            /\ ~Truthy(args.language) \/ \E k \in 1..Len(d.languages) :
                   Contains(normalize(args.language), normalize(d.languages[k]))
        /\ (args.city = s_S /\ \A k \in 1..Len(d.locations) :
                d.locations[k].city \in {None, s_Sf}) => ~ret.value
        /\ (Truthy(args.city) \/ Truthy(args.state)) /\ d.locations = <<>> => ~ret.value
        /\ Truthy(args.insurance) /\ d.insurances = <<>> => ~ret.value
        /\ Truthy(args.language) /\ d.languages = <<>> => ~ret.value

C5_Witness ==
    /\ Returned("doctor_matches_filters")
    /\ ret.value
    /\ Truthy(args.city) /\ Truthy(args.state)
    /\ Truthy(args.insurance) /\ Truthy(args.language)
    /\ Len(args.d.locations) > 1

-----------------------------------------------------------------------------
(* compute_score *)

ScoreDoctors ==
    {Doctor(name, variants, specialties, extras[1], extras[2], extras[3]) :
        name \in {s_Han, s_Bo},
        variants \in SeqUpTo({s_Han, s_An}, MaxList),
        specialties \in SeqUpTo({s_Ca, s_Ne}, MaxList),
        extras \in {<<<<>>, <<>>, <<>>>>,
                    <<<<s_En>>, <<Insurance(s_bc, s_Blue, None)>>, <<Location(s_Sf, s_Ca)>>>>}}

InitScore ==
    /\ NoData
    /\ pc = "call"
    /\ args \in {[fn |-> "compute_score", d |-> d, specs |-> specs, q |-> q,
                  city |-> city, state |-> state,
                  insurance |-> insurance, language |-> language] :
                    d \in ScoreDoctors,
                    specs \in SUBSET {s_Ca, s_Ne},
                    q \in {<<>>, s_sp, s_h, s_An},
                    city \in {None, s_SF},
                    state \in {None, s_CA},
                    insurance \in {None, s_c_b, s_z},
                    language \in {None, s_en}}

CallScore ==
    /\ args.fn = "compute_score"
    /\ Return(compute_score(args.d, args.specs, args.q, args.city, args.state,
                            args.insurance, args.language))

SpecScore == InitScore /\ [][CallScore]_vars

Overlap(d, specs) == {k \in 1..Len(d.specialties) : d.specialties[k] \in specs}
NameMatches(d, q) ==
    /\ normalize(q) # <<>>
    /\ \/ Contains(normalize(q), normalize(d.full_name))
       \/ \E k \in 1..Len(d.name_variants) :
             Contains(normalize(q), normalize(d.name_variants[k]))
CitySatisfied(d, city) == ~CityFilterMismatch(d, city) /\ Truthy(city)
StateSatisfied(d, state) == ~StateFilterMismatch(d, state) /\ Truthy(state)
LanguageSatisfied(d, language) == ~LanguageFilterMismatch(d, language) /\ Truthy(language)
InsuranceSatisfied(d, insurance) ==
    /\ Truthy(insurance)
    /\ \E k \in 1..Len(d.insurances) :
          Contains(normalize(insurance),
                   normalize(d.insurances[k].payer_code) \o <<" ">>
                   \o normalize(d.insurances[k].payer_name))
Tenths(b, w) == IF b THEN w ELSE 0

\* C6: the score is, in tenths, 10 for each of the doctor's specialties in
\* the detected set, plus a flat 5 for a name or variant match of a non-empty
\* normalized query, plus 3, 2, 4, 2 for a satisfied city, state, insurance,
\* language filter; it is never negative; two detected specialties, a
\* satisfied city filter, a name match and no other filter give exactly 28.
C6_ScoreIsSum ==
    Returned("compute_score") =>
        LET d == args.d IN
        /\ ret.value =
              10 * Cardinality(Overlap(d, args.specs))
              + Tenths(NameMatches(d, args.q), 5)
              + Tenths(CitySatisfied(d, args.city), 3)
              + Tenths(StateSatisfied(d, args.state), 2)
              + Tenths(InsuranceSatisfied(d, args.insurance), 4)
              + Tenths(LanguageSatisfied(d, args.language), 2)
        /\ ret.value >= 0
        /\ ( /\ Cardinality(Overlap(d, args.specs)) = 2
             /\ CitySatisfied(d, args.city)
             /\ NameMatches(d, args.q)
             /\ ~Truthy(args.state) /\ ~Truthy(args.insurance) /\ ~Truthy(args.language) )
           => ret.value = 28

C6_Witness ==
    /\ Returned("compute_score")
    /\ Cardinality(Overlap(args.d, args.specs)) = 2
    /\ CitySatisfied(args.d, args.city)
    /\ ~Truthy(args.state) /\ ~Truthy(args.insurance) /\ ~Truthy(args.language)
    /\ Contains(normalize(args.q), normalize(args.d.full_name))
    /\ Cardinality({k \in 1..Len(args.d.name_variants) :
          Contains(normalize(args.q), normalize(args.d.name_variants[k]))}) > 1
    /\ ret.value = 28

-----------------------------------------------------------------------------
(* detect_specialties_from_query *)

DetectProfiles ==
    {Doctor(s_An, <<>>, specialties, <<>>, <<>>, <<>>) :
        specialties \in {<<>>, <<s_Ca>>, <<s_Ne, s_ca>>, <<s_sp>>}}
DetectEntries ==
    {Entry(<<s_Hpad>>, <<s_ca, s_Ne>>), Entry(<<s_sp, s_h>>, <<s_Ca>>),
     Entry(<<s_sp>>, <<s_Ne>>), Entry(<<s_z, s_An>>, <<s_Bo>>)}

InitDetect ==
    /\ NoData
    /\ pc = "call"
    /\ args \in {[fn |-> "detect_specialties_from_query", q |-> q,
                  doctors |-> doctors, mapping |-> mapping] :
                    q \in Queries \cup {<<>>, s_Hpad},
                    doctors \in DoctorFiles(DetectProfiles, MaxDoctors),
                    mapping \in SeqUpTo(DetectEntries, MaxList)}

CallDetect ==
    /\ args.fn = "detect_specialties_from_query"
    /\ Return(detect_specialties_from_query(args.q, args.doctors, args.mapping))

SpecDetect == InitDetect /\ [][CallDetect]_vars

Labels(doctors) ==
    UNION {{doctors[k].specialties[j] : j \in 1..Len(doctors[k].specialties)} :
            k \in 1..Len(doctors)}
DirectlyMentioned(q, doctors) ==
    {sp \in Labels(doctors) : Contains(normalize(sp), normalize(q))}
EntryMatches(e, q) ==
    \E j \in 1..Len(e.condition) :
        /\ normalize(e.condition[j]) # <<>>
        /\ Contains(normalize(e.condition[j]), normalize(q))
Mapped(q, mapping) ==
    UNION {{mapping[k].specialties[j] : j \in 1..Len(mapping[k].specialties)} :
            k \in {k \in 1..Len(mapping) : EntryMatches(mapping[k], q)}}

\* C2: if some specialty label of some doctor is, normalized, a substring of
\* the normalized query, the result is exactly the set of such labels and
\* the mapping table contributes nothing; otherwise the result is the union
\* of the specialties of the entries that have a non-empty normalized
\* synonym contained in the query.
C2_DirectFirst ==
    Returned("detect_specialties_from_query") =>
        LET direct == DirectlyMentioned(args.q, args.doctors) IN
        ret.value = IF direct # {} THEN direct ELSE Mapped(args.q, args.mapping)

C2_Witness ==
    /\ Returned("detect_specialties_from_query")
    /\ DirectlyMentioned(args.q, args.doctors) # {}
    /\ ~(Mapped(args.q, args.mapping) \subseteq DirectlyMentioned(args.q, args.doctors))
    /\ ret.value = DirectlyMentioned(args.q, args.doctors)

-----------------------------------------------------------------------------
(* Concurrent requests.  FastAPI runs a `def` endpoint in a thread pool, so *)
(* several search_doctors calls run at once.  A call of an lru_cache'd      *)
(* loader is three steps: the wrapper looks the key up; on a miss the       *)
(* loader opens and reads the file; the wrapper stores the result unless    *)
(* the key has been added in the meantime.  Other threads run in between.   *)
(* A thread calls load_doctors() at line 193 (site "A") and at line 92      *)
(* (site "B"), and load_mapping() at line 98 (site "M") if the direct       *)
(* phase found nothing.                                                     *)

Threads == 1..MaxThreads
ConcRequests ==
    {Request(q, None, None, None, None, DEFAULT_LIMIT, DEFAULT_OFFSET, "en") :
        q \in {s_ca, s_h}}
NoLocals == [site |-> "none"]
Loader(site) == IF site = "M" THEN "mapping" ELSE "doctors"
File(site) == IF site = "M" THEN mappingFile ELSE doctorsFile

InitConc ==
    /\ doctorsFile \in DoctorFiles(SearchProfiles, 2) \ {<<>>}
    /\ mappingFile \in MappingFiles
    /\ cache = EmptyCache
    /\ loads = [doctors |-> 0, mapping |-> 0]
    /\ pc = "serving"
    /\ args = NoCall
    /\ ret = NoCall
    /\ tpc = [t \in Threads |-> "idle"]
    /\ tloc = [t \in Threads |-> NoLocals]

\* a request arrives and its thread is about to call load_doctors()
Receive(t, r) ==
    /\ tpc[t] = "idle"
    /\ tpc' = [tpc EXCEPT ![t] = "lookup"]
    /\ tloc' = [tloc EXCEPT ![t] = [site |-> "A", req |-> r, doctors |-> <<>>,
                                    doctors_detect |-> <<>>, mapping |-> <<>>,
                                    tmp |-> <<>>, out |-> NoCall]]
    /\ UNCHANGED <<doctorsFile, mappingFile, cache, loads, pc, args, ret>>

\* the thread's locals and position once the loader called at its site
\* has returned value
AfterLoad(t, value) ==
    LET l == tloc[t] IN
    CASE l.site = "A" ->
            <<"lookup", [l EXCEPT !.doctors = value, !.site = "B"]>>
      [] l.site = "B" ->
            IF MappingConsulted(l.req.q, value)
            THEN <<"lookup", [l EXCEPT !.doctors_detect = value, !.site = "M"]>>
            ELSE <<"finish", [l EXCEPT !.doctors_detect = value]>>
      [] OTHER ->
            <<"finish", [l EXCEPT !.mapping = value]>>

\* the lru_cache wrapper looks the key up: a hit returns the cached list
LruLookup(t) ==
    /\ tpc[t] = "lookup"
    /\ LET c == cache[Loader(tloc[t].site)] IN
       IF c # <<>>
       THEN /\ tpc' = [tpc EXCEPT ![t] = AfterLoad(t, c[1])[1]]
            /\ tloc' = [tloc EXCEPT ![t] = AfterLoad(t, c[1])[2]]
       ELSE /\ tpc' = [tpc EXCEPT ![t] = "read"]
            /\ UNCHANGED tloc
    /\ UNCHANGED <<doctorsFile, mappingFile, cache, loads, pc, args, ret>>

\* load_doctors / load_mapping proper: open the file, json.load
LoaderRead(t) ==
    /\ tpc[t] = "read"
    /\ loads' = [loads EXCEPT ![Loader(tloc[t].site)] = @ + 1]
    /\ tloc' = [tloc EXCEPT ![t].tmp = File(tloc[t].site)]
    /\ tpc' = [tpc EXCEPT ![t] = "store"]
    /\ UNCHANGED <<doctorsFile, mappingFile, cache, pc, args, ret>>

\* the wrapper stores the result unless the key is there by now, and
\* returns the result of this thread's own call
LruStore(t) ==
    /\ tpc[t] = "store"
    /\ cache' = [cache EXCEPT ![Loader(tloc[t].site)] =
                    IF @ = <<>> THEN <<tloc[t].tmp>> ELSE @]
    /\ tpc' = [tpc EXCEPT ![t] = AfterLoad(t, tloc[t].tmp)[1]]
    /\ tloc' = [tloc EXCEPT ![t] = [AfterLoad(t, tloc[t].tmp)[2] EXCEPT !.tmp = <<>>]]
    /\ UNCHANGED <<doctorsFile, mappingFile, loads, pc, args, ret>>

\* the rest of the handler, on the thread's own locals: the list that
\* load_doctors() returned at line 193, and the specialties detected from
\* the lists returned inside detect_specialties_from_query
Finish(t) ==
    /\ tpc[t] = "finish"
    /\ LET l == tloc[t]
           specs == detect_specialties_from_query(l.req.q, l.doctors_detect, l.mapping)
       IN  tloc' = [tloc EXCEPT ![t].out = RankAndRespond(l.req, l.doctors, specs).response]
    /\ tpc' = [tpc EXCEPT ![t] = "done"]
    /\ UNCHANGED <<doctorsFile, mappingFile, cache, loads, pc, args, ret>>

\* the response is sent and the thread is free for the next request
ThreadRespond(t) ==
    /\ tpc[t] = "done"
    /\ tpc' = [tpc EXCEPT ![t] = "idle"]
    /\ tloc' = [tloc EXCEPT ![t] = NoLocals]
    /\ UNCHANGED <<doctorsFile, mappingFile, cache, loads, pc, args, ret>>

NextConc ==
    \E t \in Threads :
        \/ \E r \in ConcRequests : Receive(t, r)
        \/ LruLookup(t)
        \/ LoaderRead(t)
        \/ LruStore(t)
        \/ Finish(t)
        \/ ThreadRespond(t)

SpecConc == InitConc /\ [][NextConc]_vars

\* C7: each data file is read at most once in the life of the process, every
\* request works on the one collection, and the cached lists keep the
\* contents and the order they were loaded with.
C7_LoadedOnce ==
    /\ loads.doctors <= 1
    /\ loads.mapping <= 1
    /\ \A t \in Threads :
          tpc[t] \in {"finish", "done"} =>
              /\ tloc[t].doctors = doctorsFile
              /\ tloc[t].doctors_detect = doctorsFile
    /\ cache.doctors \in {<<>>, <<doctorsFile>>}
    /\ cache.mapping \in {<<>>, <<mappingFile>>}

=============================================================================
